---- MODULE Spec2Model ----
(***************************************************************************)
(* multiflight: request coalescing for batch key lookups.                  *)
(* A model of Group.Do / Group.doLoad / setCallResult / setCallErr of      *)
(* multiflight.go, with a fixed set of goroutines calling Do on one group. *)
(***************************************************************************)
EXTENDS Integers, Sequences, FiniteSets, TLC

(* ------------------------------ bounds -------------------------------- *)
NProcs   == 2      \* goroutines calling Do on the group
NKeys    == 2      \* size of the key pool
MaxLen   == 2      \* longest key list passed to Do
MaxCalls == 1      \* Do calls made by one goroutine

Procs == 1..NProcs
Keys  == 1..NKeys
Vals  == {"a", "b"}               \* values a loader may return
Errs  == {"E1", "E2"}             \* failures a loader may return

\* the key lists passed to Do: every list of at most MaxLen keys, and one
\* key repeated MaxLen + 1 times
KeyLists ==
  UNION {[1..n -> Keys] : n \in 0..MaxLen}
  \cup {[i \in 1..(MaxLen + 1) |-> k] : k \in Keys}

(* ------------------------ values of the Go types ---------------------- *)
nil               == "nil"                  \* the nil error
zero              == "zero"                 \* the zero value of V
errResultNotFound == "result not found"     \* package-level sentinel
NoProc            == 0                      \* sync.Mutex unlocked

\* mutant: the not-found sentinel is never recognised
errorsIs_never(err, target) == FALSE

\* errors.Is on errors created by errors.New: identity with the target
errorsIs(err, target) == err = target

\* a Go map is a function whose domain is the set of keys present
EmptyMap == [k \in {} |-> zero]
MapPut(mp, k, v) == [x \in DOMAIN mp \cup {k} |-> IF x = k THEN v ELSE mp[x]]
\* mutant: the delete is lost
MapDelete_keep(mp, k) == mp
MapDelete(mp, k) == [x \in DOMAIN mp \ {k} |-> mp[x]]

\* new(ent[K, V]); e.key = key; e.wg.Add(1)
NewEnt(key) == [key |-> key, val |-> zero, err |-> nil, wg |-> 1]

VARIABLES
  mu,        \* Group.mu: the goroutine holding the mutex, or NoProc
  m,         \* Group.m: key -> entry (index into ent)
  ent,       \* the heap of ent structs, in allocation order
  pc,        \* per goroutine: position inside Do / doLoad
  keys,      \* per goroutine: Do's keys argument
  ents,      \* per goroutine: Do's ents slice (entry indices)
  missEnts,  \* per goroutine: Do's missEnts slice
  lkeys,     \* per goroutine: doLoad's keys slice, the loader's argument
  lvals,     \* per goroutine: vals returned by load
  lerr,      \* per goroutine: err returned by load
  fi,        \* per goroutine: index of doLoad's range loop under the lock
  wi,        \* per goroutine: index of Do's range loop over ents
  result,    \* per goroutine: Do's result map under construction
  ret,       \* per goroutine: what Do returned: [nilmap, map, err]
  ncalls,    \* per goroutine: Do calls started so far
  nload,     \* history: loader invocations made by the current Do call
  seen,      \* history: per goroutine, what it read from each waited entry
  hist       \* history: per entry, its creator and what the loader gave it

vars == <<mu, m, ent, pc, keys, ents, missEnts, lkeys, lvals, lerr, fi, wi,
          result, ret, ncalls, nload, seen, hist>>

NoRet == [nilmap |-> TRUE, map |-> EmptyMap, err |-> nil]

Init ==
  /\ mu = NoProc
  /\ m = EmptyMap
  /\ ent = <<>>
  /\ pc = [p \in Procs |-> "idle"]
  /\ keys = [p \in Procs |-> <<>>]
  /\ ents = [p \in Procs |-> <<>>]
  /\ missEnts = [p \in Procs |-> <<>>]
  /\ lkeys = [p \in Procs |-> <<>>]
  /\ lvals = [p \in Procs |-> EmptyMap]
  /\ lerr = [p \in Procs |-> nil]
  /\ fi = [p \in Procs |-> 1]
  /\ wi = [p \in Procs |-> 1]
  /\ result = [p \in Procs |-> EmptyMap]
  /\ ret = [p \in Procs |-> NoRet]
  /\ ncalls = [p \in Procs |-> 0]
  /\ nload = [p \in Procs |-> 0]
  /\ seen = [p \in Procs |-> <<>>]
  /\ hist = <<>>

(* --------------------------- history records -------------------------- *)
Pending == [kind |-> "pending", v |-> zero, e |-> nil]
GotVal(v) == [kind |-> "val", v |-> v, e |-> nil]
Omitted == [kind |-> "omit", v |-> zero, e |-> nil]
GotErr(e) == [kind |-> "err", v |-> zero, e |-> e]

\* what one loader return (vals, err) says about key k
LoaderSays(vals, err, k) ==
  IF err # nil THEN GotErr(err)
  ELSE IF k \in DOMAIN vals THEN GotVal(vals[k]) ELSE Omitted

Range(s) == {s[i] : i \in 1..Len(s)}

(* mutant: the new entry is not stored in m (no "g.m[key] = e") *)
RECURSIVE RegisterKeys_noshare(_, _, _)
RegisterKeys_noshare(ks, st, p) ==
  IF ks = <<>> THEN st
  ELSE LET key == Head(ks) IN
       IF key \in DOMAIN st.m
       THEN RegisterKeys_noshare(Tail(ks),
                         [st EXCEPT !.ents = Append(@, st.m[key])], p)
       ELSE LET e == Len(st.ent) + 1 IN
            RegisterKeys_noshare(Tail(ks),
                         [m        |-> st.m,
                          ent      |-> Append(st.ent, NewEnt(key)),
                          hist     |-> Append(st.hist,
                                         [owner |-> p, out |-> Pending]),
                          ents     |-> Append(st.ents, e),
                          missEnts |-> Append(st.missEnts, e)], p)

(* mutant: a hit is not appended to ents (no append before "continue") *)
RECURSIVE RegisterKeys_drophit(_, _, _)
RegisterKeys_drophit(ks, st, p) ==
  IF ks = <<>> THEN st
  ELSE LET key == Head(ks) IN
       IF key \in DOMAIN st.m
       THEN RegisterKeys_drophit(Tail(ks), st, p)
       ELSE LET e == Len(st.ent) + 1 IN
            RegisterKeys_drophit(Tail(ks),
                         [m        |-> MapPut(st.m, key, e),
                          ent      |-> Append(st.ent, NewEnt(key)),
                          hist     |-> Append(st.hist,
                                         [owner |-> p, out |-> Pending]),
                          ents     |-> Append(st.ents, e),
                          missEnts |-> Append(st.missEnts, e)], p)

(* ------------------------- Do: registration --------------------------- *)
\* Do, lines 49-60: the range loop over keys, run under the lock.
\* st = [m, ent, hist, ents, missEnts]; a key found in m is a hit, any other
\* key gets a new entry that is stored in m and appended to missEnts.
RECURSIVE RegisterKeys(_, _, _)
RegisterKeys(ks, st, p) ==
  IF ks = <<>> THEN st
  ELSE LET key == Head(ks) IN
       IF key \in DOMAIN st.m
       THEN RegisterKeys(Tail(ks),
                         [st EXCEPT !.ents = Append(@, st.m[key])], p)
       ELSE LET e == Len(st.ent) + 1 IN
            RegisterKeys(Tail(ks),
                         [m        |-> MapPut(st.m, key, e),
                          ent      |-> Append(st.ent, NewEnt(key)),
                          hist     |-> Append(st.hist,
                                         [owner |-> p, out |-> Pending]),
                          ents     |-> Append(st.ents, e),
                          missEnts |-> Append(st.missEnts, e)], p)

\* Do is called with keys ks and enters withLock (lines 40-44, 114)
DoLock(p, ks) ==
  /\ pc[p] \in {"idle", "done"}
  /\ ncalls[p] < MaxCalls
  /\ mu = NoProc
  /\ mu' = p
  /\ pc' = [pc EXCEPT ![p] = "register"]
  /\ keys' = [keys EXCEPT ![p] = ks]
  /\ ents' = [ents EXCEPT ![p] = <<>>]
  /\ missEnts' = [missEnts EXCEPT ![p] = <<>>]
  /\ lkeys' = [lkeys EXCEPT ![p] = <<>>]
  /\ lvals' = [lvals EXCEPT ![p] = EmptyMap]
  /\ lerr' = [lerr EXCEPT ![p] = nil]
  /\ fi' = [fi EXCEPT ![p] = 1]
  /\ wi' = [wi EXCEPT ![p] = 1]
  /\ result' = [result EXCEPT ![p] = EmptyMap]
  /\ ret' = [ret EXCEPT ![p] = NoRet]
  /\ ncalls' = [ncalls EXCEPT ![p] = @ + 1]
  /\ nload' = [nload EXCEPT ![p] = 0]
  /\ seen' = [seen EXCEPT ![p] = <<>>]
  /\ UNCHANGED <<m, ent, hist>>

\* mutant: doLoad is called without the test of line 64
DoRegister_always(p) ==
  /\ pc[p] = "register"
  /\ LET st == RegisterKeys(keys[p],
                 [m |-> m, ent |-> ent, hist |-> hist,
                  ents |-> <<>>, missEnts |-> <<>>], p)
     IN /\ m' = st.m
        /\ ent' = st.ent
        /\ hist' = st.hist
        /\ ents' = [ents EXCEPT ![p] = st.ents]
        /\ missEnts' = [missEnts EXCEPT ![p] = st.missEnts]
        /\ pc' = [pc EXCEPT ![p] = "doLoad"]
  /\ mu' = NoProc
  /\ UNCHANGED <<keys, lkeys, lvals, lerr, fi, wi, result, ret, ncalls,
                 nload, seen>>

\* mutant: the mutex is not released before doLoad
DoRegister_locked(p) ==
  /\ pc[p] = "register"
  /\ LET st == RegisterKeys(keys[p],
                 [m |-> m, ent |-> ent, hist |-> hist,
                  ents |-> <<>>, missEnts |-> <<>>], p)
     IN /\ m' = st.m
        /\ ent' = st.ent
        /\ hist' = st.hist
        /\ ents' = [ents EXCEPT ![p] = st.ents]
        /\ missEnts' = [missEnts EXCEPT ![p] = st.missEnts]
        /\ pc' = [pc EXCEPT ![p] =
                    IF Len(st.missEnts) > 0 THEN "doLoad" ELSE "wait"]
        /\ mu' = IF Len(st.missEnts) > 0 THEN p ELSE NoProc
  /\ UNCHANGED <<keys, lkeys, lvals, lerr, fi, wi, result, ret, ncalls,
                 nload, seen>>

\* the locked closure of Do (lines 45-60), the unlock (line 115) and the
\* test of line 64
DoRegister(p) ==
  /\ pc[p] = "register"
  /\ LET st == RegisterKeys(keys[p],
                 [m |-> m, ent |-> ent, hist |-> hist,
                  ents |-> <<>>, missEnts |-> <<>>], p)
     IN /\ m' = st.m
        /\ ent' = st.ent
        /\ hist' = st.hist
        /\ ents' = [ents EXCEPT ![p] = st.ents]
        /\ missEnts' = [missEnts EXCEPT ![p] = st.missEnts]
        /\ pc' = [pc EXCEPT ![p] =
                    IF Len(st.missEnts) > 0 THEN "doLoad" ELSE "wait"]
  /\ mu' = NoProc
  /\ UNCHANGED <<keys, lkeys, lvals, lerr, fi, wi, result, ret, ncalls,
                 nload, seen>>

(* ------------------------------ doLoad -------------------------------- *)
\* doLoad, lines 87-90: the keys of the entries, in order
EntKeys(es) == [i \in 1..Len(es) |-> ent[es[i]].key]

\* mutant: doLoad is handed ents instead of missEnts
CallLoad_allents(p) ==
  /\ pc[p] = "doLoad"
  /\ missEnts' = [missEnts EXCEPT ![p] = ents[p]]
  /\ lkeys' = [lkeys EXCEPT ![p] = EntKeys(ents[p])]
  /\ nload' = [nload EXCEPT ![p] = @ + 1]
  /\ pc' = [pc EXCEPT ![p] = "loading"]
  /\ UNCHANGED <<mu, m, ent, keys, ents, lvals, lerr, fi, wi, result, ret,
                 ncalls, seen, hist>>

\* mutant: the loader is handed Do's whole key list
CallLoad_allkeys(p) ==
  /\ pc[p] = "doLoad"
  /\ lkeys' = [lkeys EXCEPT ![p] = keys[p]]
  /\ nload' = [nload EXCEPT ![p] = @ + 1]
  /\ pc' = [pc EXCEPT ![p] = "loading"]
  /\ UNCHANGED <<mu, m, ent, keys, ents, missEnts, lvals, lerr, fi, wi,
                 result, ret, ncalls, seen, hist>>

\* doLoad, line 92: the loader is invoked with the keys of the missEnts
CallLoad(p) ==
  /\ pc[p] = "doLoad"
  /\ lkeys' = [lkeys EXCEPT ![p] = EntKeys(missEnts[p])]
  /\ nload' = [nload EXCEPT ![p] = @ + 1]
  /\ pc' = [pc EXCEPT ![p] = "loading"]
  /\ UNCHANGED <<mu, m, ent, keys, ents, missEnts, lvals, lerr, fi, wi,
                 result, ret, ncalls, seen, hist>>

\* what a Loader may return for the key list ks: a failure, or a map from
\* a subset of ks to values
LoaderOutcomes(ks) ==
  {[vals |-> EmptyMap, err |-> e] : e \in Errs}
  \cup {[vals |-> f, err |-> nil] :
          f \in UNION {[D -> Vals] : D \in SUBSET Range(ks)}}

\* doLoad, line 92: the loader returns (vals, err)
LoadReturn(p, out) ==
  /\ pc[p] = "loading"
  /\ lvals' = [lvals EXCEPT ![p] = out.vals]
  /\ lerr' = [lerr EXCEPT ![p] = out.err]
  /\ hist' = [i \in 1..Len(hist) |->
                IF i \in Range(missEnts[p])
                THEN [hist[i] EXCEPT
                        !.out = LoaderSays(out.vals, out.err, ent[i].key)]
                ELSE hist[i]]
  /\ pc' = [pc EXCEPT ![p] = "fanLock"]
  /\ UNCHANGED <<mu, m, ent, keys, ents, missEnts, lkeys, fi, wi, result,
                 ret, ncalls, nload, seen>>

\* doLoad, lines 94 / 102: withLock acquires the mutex (line 114)
FanLock(p) ==
  /\ pc[p] = "fanLock"
  /\ mu = NoProc
  /\ mu' = p
  /\ fi' = [fi EXCEPT ![p] = 1]
  /\ pc' = [pc EXCEPT ![p] = "set"]
  /\ UNCHANGED <<m, ent, keys, ents, missEnts, lkeys, lvals, lerr, wi,
                 result, ret, ncalls, nload, seen, hist>>

\* mutant: the value is not stored
setCallResult_lost(ee, e, v) == ee

\* setCallResult, line 120: e.val = v
setCallResult(ee, e, v) == [ee EXCEPT ![e].val = v]

\* setCallErr, line 126: e.err = err
setCallErr(ee, e, err) == [ee EXCEPT ![e].err = err]

\* mutant: a loader failure is recorded as not-found
FanOut_swallow(ee, e, vals, err) ==
  IF err = nil /\ ee[e].key \in DOMAIN vals
  THEN setCallResult(ee, e, vals[ee[e].key])
  ELSE setCallErr(ee, e, errResultNotFound)

\* doLoad, lines 93-108: which setter runs for entry e of the batch
FanOut(ee, e, vals, err) ==
  IF err # nil THEN setCallErr(ee, e, err)
  ELSE IF ee[e].key \in DOMAIN vals
       THEN setCallResult(ee, e, vals[ee[e].key])
       ELSE setCallErr(ee, e, errResultNotFound)

\* the payload write of the current entry of the batch (line 120 or 126)
SetPayload(p) ==
  /\ pc[p] = "set"
  /\ ent' = FanOut(ent, missEnts[p][fi[p]], lvals[p], lerr[p])
  /\ pc' = [pc EXCEPT ![p] = "signal"]
  /\ UNCHANGED <<mu, m, keys, ents, missEnts, lkeys, lvals, lerr, fi, wi,
                 result, ret, ncalls, nload, seen, hist>>

\* mutant: the completion signal is never fired
WgDone_skip(p) ==
  /\ pc[p] = "signal"
  /\ pc' = [pc EXCEPT ![p] = "delete"]
  /\ UNCHANGED <<mu, m, ent, keys, ents, missEnts, lkeys, lvals, lerr, fi,
                 wi, result, ret, ncalls, nload, seen, hist>>

\* mutant: the mutex is released at the completion signal, before the delete
WgDone_unlock(p) ==
  /\ pc[p] = "signal"
  /\ ent' = [ent EXCEPT ![missEnts[p][fi[p]]].wg = @ - 1]
  /\ mu' = NoProc
  /\ pc' = [pc EXCEPT ![p] = "delete"]
  /\ UNCHANGED <<m, keys, ents, missEnts, lkeys, lvals, lerr, fi, wi,
                 result, ret, ncalls, nload, seen, hist>>

\* e.wg.Done() (line 121 or 127)
WgDone(p) ==
  /\ pc[p] = "signal"
  /\ ent' = [ent EXCEPT ![missEnts[p][fi[p]]].wg = @ - 1]
  /\ pc' = [pc EXCEPT ![p] = "delete"]
  /\ UNCHANGED <<mu, m, keys, ents, missEnts, lkeys, lvals, lerr, fi, wi,
                 result, ret, ncalls, nload, seen, hist>>

\* mutant: the mutex is released after each entry of the batch
RegDelete_unlock(p) ==
  /\ pc[p] = "delete"
  /\ m' = MapDelete(m, ent[missEnts[p][fi[p]]].key)
  /\ mu' = NoProc
  /\ IF fi[p] < Len(missEnts[p])
     THEN /\ fi' = [fi EXCEPT ![p] = @ + 1]
          /\ pc' = [pc EXCEPT ![p] = "set"]
     ELSE /\ fi' = fi
          /\ pc' = [pc EXCEPT ![p] = "wait"]
  /\ UNCHANGED <<ent, keys, ents, missEnts, lkeys, lvals, lerr, wi, result,
                 ret, ncalls, nload, seen, hist>>

\* delete(g.m, e.key) (line 122 or 128), then the next entry of the batch
\* or, after the last one, the unlock (line 115) and doLoad's return
RegDelete(p) ==
  /\ pc[p] = "delete"
  /\ m' = MapDelete(m, ent[missEnts[p][fi[p]]].key)
  /\ IF fi[p] < Len(missEnts[p])
     THEN /\ fi' = [fi EXCEPT ![p] = @ + 1]
          /\ pc' = [pc EXCEPT ![p] = "set"]
          /\ mu' = mu
     ELSE /\ fi' = fi
          /\ pc' = [pc EXCEPT ![p] = "wait"]
          /\ mu' = NoProc
  /\ UNCHANGED <<ent, keys, ents, missEnts, lkeys, lvals, lerr, wi, result,
                 ret, ncalls, nload, seen, hist>>

(* ------------------------ Do: result assembly ------------------------- *)
\* mutant: the wait is skipped
WgWait_nowait(e) == TRUE

\* e.wg.Wait() returns once the counter is zero (line 70)
WgWait(e) == ent[e].wg = 0

\* mutant: the failure is returned together with the partial result
WaitEnt_partial(p) ==
  /\ pc[p] = "wait"
  /\ wi[p] <= Len(ents[p])
  /\ LET e == ents[p][wi[p]] IN
     /\ WgWait(e)
     /\ seen' = [seen EXCEPT ![p] =
                   Append(@, [val |-> ent[e].val, err |-> ent[e].err])]
     /\ IF ent[e].err # nil
        THEN IF errorsIs(ent[e].err, errResultNotFound)
             THEN /\ wi' = [wi EXCEPT ![p] = @ + 1]
                  /\ UNCHANGED <<pc, result, ret>>
             ELSE /\ ret' = [ret EXCEPT ![p] =
                      [nilmap |-> FALSE, map |-> result[p],
                       err |-> ent[e].err]]
                  /\ pc' = [pc EXCEPT ![p] = "done"]
                  /\ UNCHANGED <<wi, result>>
        ELSE /\ result' = [result EXCEPT ![p] =
                             MapPut(@, ent[e].key, ent[e].val)]
             /\ wi' = [wi EXCEPT ![p] = @ + 1]
             /\ UNCHANGED <<pc, ret>>
  /\ UNCHANGED <<mu, m, ent, keys, ents, missEnts, lkeys, lvals, lerr, fi,
                 ncalls, nload, hist>>

\* mutant: on a failure the call removes its keys from the registry
WaitEnt_cleanup(p) ==
  /\ pc[p] = "wait"
  /\ wi[p] <= Len(ents[p])
  /\ LET e == ents[p][wi[p]] IN
     /\ WgWait(e)
     /\ seen' = [seen EXCEPT ![p] =
                   Append(@, [val |-> ent[e].val, err |-> ent[e].err])]
     /\ IF ent[e].err # nil
        THEN IF errorsIs(ent[e].err, errResultNotFound)
             THEN /\ wi' = [wi EXCEPT ![p] = @ + 1]
                  /\ UNCHANGED <<pc, result, ret, m>>
             ELSE /\ ret' = [ret EXCEPT ![p] =
                      [nilmap |-> TRUE, map |-> EmptyMap, err |-> ent[e].err]]
                  /\ pc' = [pc EXCEPT ![p] = "done"]
                  /\ m' = [k \in DOMAIN m \ Range(keys[p]) |-> m[k]]
                  /\ UNCHANGED <<wi, result>>
        ELSE /\ result' = [result EXCEPT ![p] =
                             MapPut(@, ent[e].key, ent[e].val)]
             /\ wi' = [wi EXCEPT ![p] = @ + 1]
             /\ UNCHANGED <<pc, ret, m>>
  /\ UNCHANGED <<mu, ent, keys, ents, missEnts, lkeys, lvals, lerr, fi,
                 ncalls, nload, hist>>

\* Do, lines 69-80: one iteration of the range loop over ents
WaitEnt(p) ==
  /\ pc[p] = "wait"
  /\ wi[p] <= Len(ents[p])
  /\ LET e == ents[p][wi[p]] IN
     /\ WgWait(e)
     /\ seen' = [seen EXCEPT ![p] =
                   Append(@, [val |-> ent[e].val, err |-> ent[e].err])]
     /\ IF ent[e].err # nil
        THEN IF errorsIs(ent[e].err, errResultNotFound)
             THEN /\ wi' = [wi EXCEPT ![p] = @ + 1]
                  /\ UNCHANGED <<pc, result, ret>>
             ELSE /\ ret' = [ret EXCEPT ![p] =
                      [nilmap |-> TRUE, map |-> EmptyMap, err |-> ent[e].err]]
                  /\ pc' = [pc EXCEPT ![p] = "done"]
                  /\ UNCHANGED <<wi, result>>
        ELSE /\ result' = [result EXCEPT ![p] =
                             MapPut(@, ent[e].key, ent[e].val)]
             /\ wi' = [wi EXCEPT ![p] = @ + 1]
             /\ UNCHANGED <<pc, ret>>
  /\ UNCHANGED <<mu, m, ent, keys, ents, missEnts, lkeys, lvals, lerr, fi,
                 ncalls, nload, hist>>

\* Do, line 82: return result, nil
DoReturn(p) ==
  /\ pc[p] = "wait"
  /\ wi[p] > Len(ents[p])
  /\ ret' = [ret EXCEPT ![p] =
               [nilmap |-> FALSE, map |-> result[p], err |-> nil]]
  /\ pc' = [pc EXCEPT ![p] = "done"]
  /\ UNCHANGED <<mu, m, ent, keys, ents, missEnts, lkeys, lvals, lerr, fi,
                 wi, result, ncalls, nload, seen, hist>>

(* --------------------------- specification ---------------------------- *)
Next ==
  \/ \E p \in Procs, ks \in KeyLists : DoLock(p, ks)
  \/ \E p \in Procs : DoRegister(p)
  \/ \E p \in Procs : CallLoad(p)
  \/ \E p \in Procs : \E out \in LoaderOutcomes(lkeys[p]) : LoadReturn(p, out)
  \/ \E p \in Procs : FanLock(p)
  \/ \E p \in Procs : SetPayload(p)
  \/ \E p \in Procs : WgDone(p)
  \/ \E p \in Procs : RegDelete(p)
  \/ \E p \in Procs : WaitEnt(p)
  \/ \E p \in Procs : DoReturn(p)

Spec == Init /\ [][Next]_vars

\* the lock is handed to a blocked Lock() (sync.Mutex starvation mode), every
\* goroutine that can run does run, and every loader invocation returns
Fairness ==
  \A p \in Procs :
    /\ WF_vars(DoRegister(p))
    /\ WF_vars(CallLoad(p))
    /\ WF_vars(\E out \in LoaderOutcomes(lkeys[p]) : LoadReturn(p, out))
    /\ SF_vars(FanLock(p))
    /\ WF_vars(SetPayload(p))
    /\ WF_vars(WgDone(p))
    /\ WF_vars(RegDelete(p))
    /\ WF_vars(WaitEnt(p))
    /\ WF_vars(DoReturn(p))

FairSpec == Spec /\ Fairness

(* ------------------------- shared vocabulary -------------------------- *)
Returned(p) == pc[p] = "done"
InCall(p)   == pc[p] \notin {"idle", "done"}
Registered(p) == pc[p] \notin {"idle", "register"}
Loading(p)  == pc[p] = "loading"
Pos(p)      == 1..Len(ents[p])
Failed(e)   == hist[e].out.kind = "err"
\* the first position of p's entries whose loader outcome is a failure
FirstFailed(p) ==
  IF \E i \in Pos(p) : Failed(ents[p][i])
  THEN CHOOSE i \in Pos(p) :
         /\ Failed(ents[p][i])
         /\ \A j \in 1..(i - 1) : ~Failed(ents[p][j])
  ELSE 0

TypeOK ==
  /\ mu \in Procs \cup {NoProc}
  /\ DOMAIN m \subseteq Keys
  /\ \A k \in DOMAIN m : m[k] \in 1..Len(ent)
  /\ Len(hist) = Len(ent)
  /\ \A p \in Procs : ncalls[p] \in 0..MaxCalls


(* ========================= C1: coalescing ============================= *)
\* C1: at every moment at most one outstanding loader invocation has a
\* given key in its key list, and a Do call that found a key pending (its
\* entry was created by another call) does not pass that key to its own
\* loader: it holds the pending entry in ents and waits on it.
C1_Coalescing ==
  /\ \A p, q \in Procs :
       (p # q /\ Loading(p) /\ Loading(q))
         => Range(lkeys[p]) \cap Range(lkeys[q]) = {}
  /\ \A p \in Procs : \A i \in Pos(p) :
       (Registered(p) /\ hist[ents[p][i]].owner # p)
         => /\ keys[p][i] \notin Range(lkeys[p])
            /\ ents[p][i] \notin Range(missEnts[p])
            /\ ent[ents[p][i]].key = keys[p][i]

\* two loader invocations are outstanding at once and one of the callers
\* also holds a pending entry of the other
C1_Witness ==
  \E p, q \in Procs :
    /\ p # q /\ Loading(p) /\ Loading(q)
    /\ \E i \in Pos(q) : hist[ents[q][i]].owner = p /\ ent[ents[q][i]].wg = 1

(* ========================= C2: correctness ============================ *)
\* C2 as stated: if the loader gave key -> v to the entry a Do call resolved
\* at position i, and the call did not fail at an earlier position, the call
\* returns v for that key.
C2_AsStated ==
  \A p \in Procs : \A i \in Pos(p) :
    (/\ Returned(p)
     /\ hist[ents[p][i]].out.kind = "val"
     /\ \A j \in 1..(i - 1) : ~Failed(ents[p][j]))
      => /\ keys[p][i] \in DOMAIN ret[p].map
         /\ ret[p].map[keys[p][i]] = hist[ents[p][i]].out.v

\* C2 amended: if the loader gave key -> v to the entry a Do call resolved
\* for that key, and the call returned a nil error, the call returns v for
\* that key; a call that fails on any entry, before or after that key in
\* input order, returns a nil mapping.
C2_Correctness ==
  \A p \in Procs : \A i \in Pos(p) :
    (Returned(p) /\ hist[ents[p][i]].out.kind = "val")
      => IF ret[p].err = nil
         THEN /\ ~ret[p].nilmap
              /\ keys[p][i] \in DOMAIN ret[p].map
              /\ ret[p].map[keys[p][i]] = hist[ents[p][i]].out.v
         ELSE ret[p].nilmap /\ ret[p].map = EmptyMap

\* a call returned the value "b" that another call's loader produced
C2_Witness ==
  \E p \in Procs : \E i \in Pos(p) :
    /\ Returned(p) /\ ret[p].err = nil
    /\ hist[ents[p][i]].owner # p
    /\ hist[ents[p][i]].out = GotVal("b")
    /\ ret[p].map[keys[p][i]] = "b"

(* ==================== C3: failure propagation ========================= *)
\* C3 as stated: when a loader invocation fails, every Do call that holds an
\* entry of that batch (as a miss or as a hit) returns that very failure.
C3_AsStated ==
  \A p \in Procs : \A i \in Pos(p) :
    (Returned(p) /\ Failed(ents[p][i]))
      => ret[p].err = hist[ents[p][i]].out.e

\* C3 amended: when a loader invocation fails, every entry of its batch
\* carries that very failure once completed, and every Do call that holds an
\* entry of that batch returns a failure with a nil mapping: the failure of
\* the first failed entry in its own input order, which is that very
\* failure unless an entry of another failed batch comes first.
C3_FailurePropagation ==
  /\ \A e \in 1..Len(ent) :
       (Failed(e) /\ ent[e].wg = 0)
         => ent[e].err = hist[e].out.e /\ ent[e].val = zero
  /\ \A p \in Procs : \A i \in Pos(p) :
       (Returned(p) /\ Failed(ents[p][i]))
         => /\ ret[p].err \in Errs
            /\ ret[p].nilmap
            /\ ret[p].err = hist[ents[p][FirstFailed(p)]].out.e
            /\ (\A j \in 1..(i - 1) :
                  Failed(ents[p][j])
                    => hist[ents[p][j]].out.e = hist[ents[p][i]].out.e)
                 => ret[p].err = hist[ents[p][i]].out.e

\* two calls returned the failure of one loader invocation, one of them
\* through a hit
C3_Witness ==
  \E p, q \in Procs : \E i \in Pos(q) :
    /\ p # q /\ Returned(p) /\ Returned(q)
    /\ hist[ents[q][i]].owner = p
    /\ hist[ents[q][i]].out = GotErr("E2")
    /\ ret[p].err = "E2" /\ ret[q].err = "E2"

(* ========================== C4: no leakage ============================ *)
\* C4: in every state in which all Do calls started on the group have
\* returned, the registry is empty.
C4_NoLeak ==
  (\A p \in Procs : ~InCall(p)) => m = EmptyMap

\* every goroutine has made its calls, with a value, an omission and a
\* failure among the loader outcomes
C4_Witness ==
  /\ \A p \in Procs : Returned(p) /\ ncalls[p] = MaxCalls
  /\ \E e \in 1..Len(hist) : hist[e].out.kind = "val"
  /\ \E e \in 1..Len(hist) : hist[e].out.kind = "omit"
  /\ \E e \in 1..Len(hist) : hist[e].out.kind = "err"

(* ========================== C5: termination =========================== *)
\* C5: under fair scheduling, with every loader invocation returning, every
\* Do call eventually returns; and a caller whose next entry has been
\* completed is not blocked: its wait can return at once.
C5_Termination ==
  /\ \A p \in Procs : InCall(p) ~> Returned(p)
  /\ [](\A p \in Procs :
          (pc[p] = "wait" /\ wi[p] <= Len(ents[p])
             /\ ent[ents[p][wi[p]]].wg = 0)
            => ENABLED WaitEnt(p))

\* a caller is blocked on a pending entry that another call created
C5_Witness ==
  \E p \in Procs :
    /\ pc[p] = "wait" /\ wi[p] <= Len(ents[p])
    /\ hist[ents[p][wi[p]]].owner # p
    /\ ent[ents[p][wi[p]]].wg = 1

(* ======================= C6: omission on miss ========================= *)
\* C6: when a loader invocation succeeds but omits a key of its batch, that
\* key is absent from the result of every Do call that resolved to that
\* key's entry; the entry carries the not-found marker, which no Do call
\* returns, and a Do call whose entries are all values or omissions returns
\* a nil error.
C6_Omission ==
  /\ \A e \in 1..Len(ent) :
       (hist[e].out.kind = "omit" /\ ent[e].wg = 0)
         => ent[e].err = errResultNotFound
  /\ \A p \in Procs :
       Returned(p) =>
         /\ ret[p].err # errResultNotFound
         /\ \A i \in Pos(p) :
              hist[ents[p][i]].out.kind = "omit"
                => keys[p][i] \notin DOMAIN ret[p].map
         /\ (\A i \in Pos(p) : hist[ents[p][i]].out.kind \in {"val", "omit"})
              => ret[p].err = nil /\ ~ret[p].nilmap

\* a call returned a nil error and a map with one of its two keys, the other
\* having been omitted by another call's loader
C6_Witness ==
  \E p \in Procs : \E i, j \in Pos(p) :
    /\ Returned(p) /\ ret[p].err = nil
    /\ hist[ents[p][i]].out.kind = "omit"
    /\ hist[ents[p][i]].owner # p
    /\ hist[ents[p][j]].out.kind = "val"
    /\ DOMAIN ret[p].map = {keys[p][j]}

(* ================= C7: complete results, total loader ================= *)
\* no loader invocation so far has failed or omitted a key
AllTotal == \A e \in 1..Len(hist) : hist[e].out.kind \in {"pending", "val"}

\* C7: if every loader invocation succeeds with a value for every key it was
\* given, every Do call returns a nil error and a map whose key set is the
\* set of requested keys, each mapped to the value the loader produced for
\* the entry of that key.
C7_TotalLoader ==
  \A p \in Procs :
    (Returned(p) /\ AllTotal)
      => /\ ret[p].err = nil
         /\ ~ret[p].nilmap
         /\ DOMAIN ret[p].map = Range(keys[p])
         /\ \A i \in 1..Len(keys[p]) :
              ret[p].map[keys[p][i]] = hist[ents[p][i]].out.v

\* a call for two keys returned both, one loaded by itself and one loaded
\* by a concurrent call
C7_Witness ==
  \E p \in Procs :
    /\ Returned(p) /\ AllTotal
    /\ DOMAIN ret[p].map = Keys
    /\ Len(missEnts[p]) = 1
    /\ \E i \in Pos(p) : hist[ents[p][i]].owner # p

(* ========================= C8: shared result ========================== *)
\* C8: all Do calls that resolved a key to the same entry read the same
\* outcome from it (the same value and the same error), in whatever order
\* they wait, and that outcome is the one the loader gave that entry.
C8_SharedResult ==
  \A p, q \in Procs :
    \A i \in 1..Len(seen[p]) : \A j \in 1..Len(seen[q]) :
      ents[p][i] = ents[q][j]
        => /\ seen[p][i] = seen[q][j]
           /\ hist[ents[p][i]].out.kind # "pending"
           /\ seen[p][i].val = hist[ents[p][i]].out.v
           /\ seen[p][i].err =
                (IF hist[ents[p][i]].out.kind = "omit"
                 THEN errResultNotFound ELSE hist[ents[p][i]].out.e)

\* the caller that created an entry and a duplicate caller have both read
\* the value "b" from it
C8_Witness ==
  \E p, q \in Procs : \E i \in 1..Len(seen[p]) : \E j \in 1..Len(seen[q]) :
    /\ p # q
    /\ ents[p][i] = ents[q][j]
    /\ hist[ents[p][i]].owner = p
    /\ seen[p][i].val = "b" /\ seen[q][j].val = "b"

(* ====================== C9: duplicate keys ============================ *)
NoDup(s) == \A i, j \in 1..Len(s) : s[i] = s[j] => i = j

\* C9: in a Do call whose key list repeats a key, every occurrence resolves
\* to one entry; if the key was not in flight that entry is created once,
\* the loader is invoked exactly once, with that key once in its key list,
\* and the returned map has the key once.
C9_DuplicateKeys ==
  \A p \in Procs :
    Registered(p) =>
      /\ Len(ents[p]) = Len(keys[p])
      /\ \A i, j \in Pos(p) : keys[p][i] = keys[p][j] => ents[p][i] = ents[p][j]
      /\ NoDup(missEnts[p])
      /\ Range(missEnts[p]) \subseteq Range(ents[p])
      /\ NoDup(lkeys[p])
      /\ nload[p] <= 1
      /\ (Returned(p) /\ missEnts[p] # <<>>)
           => nload[p] = 1 /\ lkeys[p] = EntKeys(missEnts[p])
      /\ (Returned(p) /\ ret[p].err = nil)
           => DOMAIN ret[p].map \subseteq Range(keys[p])

\* a call with keys [k, k, k], k not in flight, loaded k with one
\* invocation for that one key and returned a map with that key alone
C9_Witness ==
  \E p \in Procs : \E k \in Keys :
    /\ Returned(p)
    /\ keys[p] = <<k, k, k>>
    /\ Len(missEnts[p]) = 1
    /\ ents[p] = <<missEnts[p][1], missEnts[p][1], missEnts[p][1]>>
    /\ lkeys[p] = <<k>>
    /\ nload[p] = 1
    /\ DOMAIN ret[p].map = {k}

(* ============== C10: first failure, no partial result ================= *)
\* C10: a Do call fails exactly when one of its entries has a loader
\* failure; the error returned is that of the first such entry in input key
\* order (values and omissions before it are passed over) and the returned
\* mapping is nil even if earlier keys had values.
C10_FirstFailure ==
  \A p \in Procs :
    Returned(p) =>
      IF FirstFailed(p) = 0
      THEN ret[p].err = nil
      ELSE /\ ret[p].err = hist[ents[p][FirstFailed(p)]].out.e
           /\ ret[p].nilmap
           /\ ret[p].map = EmptyMap
           /\ Len(seen[p]) = FirstFailed(p)

\* a call failed on its second key after having collected a value for its
\* first key
C10_Witness ==
  \E p \in Procs :
    /\ Returned(p)
    /\ FirstFailed(p) = 2
    /\ hist[ents[p][1]].out.kind = "val"
    /\ DOMAIN result[p] = {keys[p][1]}
    /\ ret[p].nilmap /\ ret[p].err \in Errs


(* ================ C11: no caching beyond the window =================== *)
\* C11: a Do call never resolves a key to a completed entry: every entry it
\* holds after registration is pending, and a key whose earlier entries have
\* all completed gets a new entry, created by this call, whose key is in the
\* key list of this call's own loader invocation.
C11_NoCaching ==
  [][\A p \in Procs :
       /\ DoRegister(p) =>
            \A i \in 1..Len(keys[p]) :
              LET e == ents'[p][i] IN
              /\ ent'[e].wg = 1
              /\ ent'[e].val = zero /\ ent'[e].err = nil
              /\ (\A d \in 1..Len(ent) :
                    ent[d].key = keys[p][i] => ent[d].wg = 0)
                   => /\ e > Len(ent)
                      /\ hist'[e].owner = p
                      /\ e \in Range(missEnts'[p])
       /\ CallLoad(p) =>
            \A i \in Pos(p) :
              hist[ents[p][i]].owner = p => keys[p][i] \in Range(lkeys'[p])
    ]_vars

\* a call is loading a key with a new entry while an older entry of the same
\* key, completed with value "a" by another call, still exists
C11_Witness ==
  \E p \in Procs : \E i \in Pos(p) : \E d \in 1..Len(ent) :
    /\ Loading(p)
    /\ d < ents[p][i]
    /\ ent[d].key = keys[p][i]
    /\ ent[d].wg = 0 /\ ent[d].val = "a"
    /\ hist[d].owner # p
    /\ hist[ents[p][i]].owner = p
    /\ keys[p][i] \in Range(lkeys[p])


(* ========================== C12: empty input ========================== *)
\* C12: a Do call with an empty key list holds no entry, makes no loader
\* call, leaves the registry and every entry unchanged, is never blocked in
\* its wait loop, and returns an empty, non-nil map and a nil error.
C12_EmptyInput ==
  /\ [](\A p \in Procs :
          (Registered(p) /\ keys[p] = <<>>)
            => /\ ents[p] = <<>> /\ missEnts[p] = <<>>
               /\ nload[p] = 0 /\ lkeys[p] = <<>>
               /\ pc[p] \in {"wait", "done"}
               /\ pc[p] = "wait" => ENABLED DoReturn(p)
               /\ Returned(p) =>
                    ret[p] = [nilmap |-> FALSE, map |-> EmptyMap, err |-> nil])
  /\ [][\A p \in Procs :
          (keys[p] = <<>> /\ pc[p] = "register" /\ pc'[p] # "register")
            => m' = m /\ ent' = ent
       ]_vars

\* a call with no keys has returned while the other call's key is still
\* registered and pending
C12_Witness ==
  \E p, q \in Procs :
    /\ Returned(p) /\ keys[p] = <<>>
    /\ ret[p] = [nilmap |-> FALSE, map |-> EmptyMap, err |-> nil]
    /\ Loading(q) /\ DOMAIN m # {}


(* ======================= C13: registry invariant ====================== *)
\* the entry of key k that is registered and not yet completed, if any
PendingEnts(k) == {e \in 1..Len(ent) : ent[e].key = k /\ ent[e].wg = 1}

\* C13: whenever the lock is free, a key is in the registry exactly when an
\* entry of that key is registered and not yet completed, and the registry
\* maps the key to that entry; an entry is completed and removed in one
\* critical section: a completed entry is still in the registry only while
\* its creator holds the lock between the signal and the delete.
C13_RegistryInvariant ==
  /\ mu = NoProc =>
       \A k \in Keys :
         /\ k \in DOMAIN m <=> PendingEnts(k) # {}
         /\ k \in DOMAIN m => PendingEnts(k) = {m[k]}
  /\ \A e \in 1..Len(ent) :
       /\ ent[e].wg = 1 => (ent[e].key \in DOMAIN m /\ m[ent[e].key] = e)
       /\ (ent[e].wg = 0 /\ ent[e].key \in DOMAIN m /\ m[ent[e].key] = e)
            => /\ mu = hist[e].owner
               /\ pc[mu] = "delete"
               /\ missEnts[mu][fi[mu]] = e

\* the lock is free, one key is registered and pending, and an entry
\* completed with a loader failure has been removed
C13_Witness ==
  /\ mu = NoProc
  /\ \E k \in Keys : k \in DOMAIN m /\ ent[m[k]].wg = 1
  /\ \E e \in 1..Len(ent) :
       ent[e].wg = 0 /\ ent[e].err \in Errs /\ ent[e].key \notin DOMAIN m


(* ====================== C14: entry state machine ====================== *)
\* outcome classes of a completed entry, decided as Do decides them
IsValue(r)    == r.err = nil
IsNotFound(r) == r.err = errResultNotFound
IsFailure(r)  == r.err \in Errs

\* C14: an entry's counter is 1 from creation and goes to 0 once, never
\* below; only the Do call that created the entry writes it or signals it;
\* a completed entry has exactly one of a value, the not-found marker or a
\* loader error (an error never comes with a value); it never changes after
\* completion and is never put back in the registry once removed.
C14_EntryStateMachine ==
  /\ [](\A e \in 1..Len(ent) :
          /\ ent[e].wg \in {0, 1}
          /\ ent[e].err # nil => ent[e].val = zero
          /\ ent[e].val # zero => ent[e].val \in Vals
          /\ ent[e].wg = 0 =>
               /\ (IsValue(ent[e]) /\ ~IsNotFound(ent[e]) /\ ~IsFailure(ent[e]))
                  \/ (~IsValue(ent[e]) /\ IsNotFound(ent[e]) /\ ~IsFailure(ent[e]))
                  \/ (~IsValue(ent[e]) /\ ~IsNotFound(ent[e]) /\ IsFailure(ent[e]))
               /\ IsValue(ent[e]) <=> hist[e].out.kind = "val"
               /\ IsNotFound(ent[e]) <=> hist[e].out.kind = "omit"
               /\ IsFailure(ent[e]) <=> hist[e].out.kind = "err")
  /\ [][\A e \in 1..Len(ent) :
          /\ ent'[e].key = ent[e].key
          /\ ent'[e].wg <= ent[e].wg
          /\ ent[e].wg = 0 => ent'[e] = ent[e]
          /\ ent'[e] # ent[e] =>
               /\ pc[hist[e].owner] \in {"set", "signal"}
               /\ mu = hist[e].owner
               /\ missEnts[hist[e].owner][fi[hist[e].owner]] = e
          /\ (ent[e].key \notin DOMAIN m \/ m[ent[e].key] # e)
               => (ent[e].key \notin DOMAIN m' \/ m'[ent[e].key] # e)
       ]_vars

\* two entries of one key, created by different calls, have both been
\* completed, the first with a value and the second with a not-found
C14_Witness ==
  \E d, e \in 1..Len(ent) :
    /\ d < e /\ ent[d].key = ent[e].key
    /\ hist[d].owner # hist[e].owner
    /\ ent[d].wg = 0 /\ IsValue(ent[d]) /\ ent[d].val = "a"
    /\ ent[e].wg = 0 /\ IsNotFound(ent[e])
    /\ DOMAIN m = {}


(* ================= C15: one loader call per miss batch ================ *)
\* the positions of p's key list at which this call created an entry
CreatedAt(p) ==
  {i \in Pos(p) :
     /\ hist[ents[p][i]].owner = p
     /\ \A j \in 1..(i - 1) : keys[p][j] # keys[p][i]}

\* the elements of s at the positions in I, in increasing position
RECURSIVE Pick(_, _, _)
Pick(s, I, n) ==
  IF n > Len(s) THEN <<>>
  ELSE (IF n \in I THEN <<s[n]>> ELSE <<>>) \o Pick(s, I, n + 1)

\* C15: once past doLoad's call of the loader (or past the point where it
\* is skipped), a Do call has invoked the loader once if it created an
\* entry and not at all otherwise; the key list passed is never empty and
\* is the keys of the entries this call created, each once, in order of
\* first occurrence in the input; no key that was a hit is in it.
C15_OneLoaderCall ==
  \A p \in Procs :
    (Registered(p) /\ pc[p] # "doLoad") =>
      /\ nload[p] = (IF CreatedAt(p) # {} THEN 1 ELSE 0)
      /\ lkeys[p] = Pick(keys[p], CreatedAt(p), 1)
      /\ nload[p] = 1 => lkeys[p] # <<>>
      /\ NoDup(lkeys[p])
      /\ \A i \in Pos(p) :
           hist[ents[p][i]].owner # p => keys[p][i] \notin Range(lkeys[p])

\* a call for keys [2, 2, 2] invoked the loader once, for [2]; the other
\* call, for [1, 2] with key 2 a hit, invoked it once, for [1]
C15_Witness ==
  \E p, q \in Procs :
    /\ Returned(p) /\ Returned(q)
    /\ keys[p] = <<2, 2, 2>> /\ lkeys[p] = <<2>> /\ nload[p] = 1
    /\ keys[q] = <<1, 2>> /\ lkeys[q] = <<1>> /\ nload[q] = 1
    /\ hist[ents[q][2]].owner = p


(* ================= C16: the loader runs outside the lock ============== *)
\* the positions of Do and doLoad that are inside withLock
InLock(p) == pc[p] \in {"register", "set", "signal", "delete"}

\* C16: a goroutine holds the lock exactly inside its withLock closures,
\* never while its loader invocation is in progress; while a load is
\* outstanding and the lock is free, any other goroutine can enter Do with
\* any key list or enter its fan-out, and one that holds the lock can
\* register its keys, pending or unrelated, without waiting for the load.
C16_LoaderOutsideLock ==
  /\ \A p \in Procs : mu = p <=> InLock(p)
  /\ \A p \in Procs :
       Loading(p) =>
         /\ mu # p
         /\ \A q \in Procs \ {p} :
              /\ (mu = NoProc /\ ~InCall(q) /\ ncalls[q] < MaxCalls)
                   => \A ks \in KeyLists : ENABLED DoLock(q, ks)
              /\ (mu = NoProc /\ pc[q] = "fanLock") => ENABLED FanLock(q)
              /\ pc[q] = "register" => ENABLED DoRegister(q)
              /\ pc[q] = "doLoad" => ENABLED CallLoad(q)

\* while the load of key 1 is outstanding, another call has entered Do with
\* the pending key and an unrelated key and holds the lock to register them
C16_Witness ==
  \E p, q \in Procs :
    /\ p # q
    /\ Loading(p) /\ lkeys[p] = <<1>>
    /\ pc[q] = "register" /\ mu = q
    /\ keys[q] = <<1, 2>>
    /\ 1 \in DOMAIN m /\ 2 \notin DOMAIN m


(* =================== C17: read only after completion ================== *)
\* the payload the loader's return gives an entry
Payload(out) ==
  [val |-> out.v,
   err |-> IF out.kind = "omit" THEN errResultNotFound ELSE out.e]

\* C17: a Do call reads an entry's val and err only when the entry's
\* counter is zero, and reads the payload the loader gave it; an entry's
\* payload is written once, while its counter is still 1, and the signal
\* that takes the counter to zero finds the payload already written and
\* leaves it as it is.
C17_ReadAfterCompletion ==
  [][/\ \A p \in Procs :
          (pc[p] = "wait" /\ seen'[p] # seen[p]) =>
            LET e == ents[p][wi[p]] IN
            /\ ent[e].wg = 0
            /\ seen'[p] = Append(seen[p], Payload(hist[e].out))
            /\ result'[p] # result[p] => result'[p][ent[e].key] = hist[e].out.v
     /\ \A e \in 1..Len(ent) :
          /\ (ent'[e].val # ent[e].val \/ ent'[e].err # ent[e].err)
               => /\ ent[e].wg = 1 /\ ent'[e].wg = 1
                  /\ ent[e].val = zero /\ ent[e].err = nil
          /\ (ent[e].wg = 1 /\ ent'[e].wg = 0)
               => /\ ent'[e].val = ent[e].val /\ ent'[e].err = ent[e].err
                  /\ [val |-> ent[e].val, err |-> ent[e].err]
                       = Payload(hist[e].out)
    ]_vars

\* a duplicate caller has read a completed entry while the call that
\* created it is still inside its fan-out, its second entry written but
\* not yet signalled
C17_Witness ==
  \E p, q \in Procs :
    /\ p # q
    /\ pc[p] = "signal" /\ fi[p] = 2
    /\ Len(seen[q]) >= 1
    /\ ents[q][1] = missEnts[p][1]
    /\ seen[q][1] = Payload(hist[ents[q][1]].out)
    /\ ent[missEnts[p][2]].wg = 1


(* ============ C18: early return leaves shared state alone ============= *)
\* p returned on a failure before having waited for all its entries
EarlyReturn(p) ==
  Returned(p) /\ ret[p].err # nil /\ Len(seen[p]) < Len(ents[p])

\* C18: no step of a Do call's wait loop, its early return on a failure
\* included, changes the registry, the lock or any entry; after an early
\* return the entries the call had not waited for are still completed by
\* the calls that created them, and every other call in progress still
\* returns.
C18_EarlyReturnFrame ==
  /\ [][\A p \in Procs :
          (pc[p] = "wait" /\ (wi'[p] # wi[p] \/ pc'[p] = "done"))
            => UNCHANGED <<m, ent, mu, hist>>
       ]_vars
  /\ \A p \in Procs :
       EarlyReturn(p) ~> (\A i \in Pos(p) : ent[ents[p][i]].wg = 0)
  /\ \A p \in Procs : \A q \in Procs \ {p} :
       (EarlyReturn(p) /\ InCall(q)) ~> Returned(q)

\* a call returned its own failure without waiting for its second entry,
\* which another call created and has not yet completed
C18_Witness ==
  \E p \in Procs :
    /\ EarlyReturn(p)
    /\ Len(seen[p]) = 1
    /\ hist[ents[p][2]].owner # p
    /\ ent[ents[p][2]].wg = 1
    /\ ent[ents[p][2]].key \in DOMAIN m


(* ================== C19: batch completion is atomic =================== *)
\* entry e is what the registry holds for its key
InRegistry(e) == ent[e].key \in DOMAIN m /\ m[ent[e].key] = e

\* C19: whenever the goroutine that created a batch does not hold the lock
\* (the lock is free or another Do call holds it), the entries of the batch
\* are either all pending and in the registry or all completed and removed;
\* when the loader failed, every entry of the batch is given that same
\* failure and carries it once completed.
C19_BatchAtomic ==
  \A p \in Procs :
    /\ (Registered(p) /\ mu # p) =>
         \/ \A e \in Range(missEnts[p]) : ent[e].wg = 1 /\ InRegistry(e)
         \/ \A e \in Range(missEnts[p]) : ent[e].wg = 0 /\ ~InRegistry(e)
    /\ \A d, e \in Range(missEnts[p]) :
         Failed(d) => /\ hist[e].out = hist[d].out
                      /\ hist[d].out.e = lerr[p]
                      /\ ent[e].wg = 0 => ent[e].err = lerr[p]

\* another Do call holds the lock after a batch of two keys has failed:
\* both entries carry the failure "E1" and both keys are gone
C19_Witness ==
  \E p, q \in Procs :
    /\ p # q
    /\ mu = q /\ pc[q] = "register"
    /\ Len(missEnts[p]) = 2
    /\ \A e \in Range(missEnts[p]) :
         ent[e].wg = 0 /\ ent[e].err = "E1" /\ ~InRegistry(e)
    /\ DOMAIN m = {}


(* ============ C20: removal by key hits the completed entry ============ *)
\* C20: at every delete of doLoad's fan-out the registry maps the key of
\* the entry being completed to that very entry; the delete removes that
\* key alone, so every pending entry, whichever call created it, is still
\* in the registry afterwards.
C20_RemovalHitsOwnEntry ==
  [][\A p \in Procs :
       (pc[p] = "delete" /\ pc'[p] # "delete") =>
         LET e == missEnts[p][fi[p]] IN
         /\ InRegistry(e)
         /\ hist[e].owner = p
         /\ ent[e].wg = 0
         /\ DOMAIN m' = DOMAIN m \ {ent[e].key}
         /\ \A k \in DOMAIN m' : m'[k] = m[k]
         /\ \A d \in 1..Len(ent) :
              ent[d].wg = 1 => (ent[d].key \in DOMAIN m' /\ m'[ent[d].key] = d)
    ]_vars

\* a call is about to delete the key of the entry it has just completed,
\* which the registry maps to that entry; an older entry of the same key,
\* created by another call, was completed and removed before
C20_Witness ==
  \E p, q \in Procs : \E d \in 1..Len(ent) :
    /\ p # q
    /\ pc[p] = "delete"
    /\ d < missEnts[p][fi[p]]
    /\ ent[d].key = ent[missEnts[p][fi[p]]].key
    /\ hist[d].owner = q
    /\ ent[d].wg = 0
    /\ InRegistry(missEnts[p][fi[p]])


====
